---- MODULE Spec2Model ----
(***************************************************************************)
(* Model of homework.py: a bot that polls the homework-review API, turns   *)
(* the newest homework's status into a sentence, sends it to a Telegram    *)
(* chat, and reports failures once per distinct error text.                *)
(*                                                                         *)
(* Python values are tagged records.  Texts are strings; the Russian       *)
(* literals of the source are transliterated to ASCII, one distinct ASCII  *)
(* literal per distinct source literal.  f-strings are built with \o.      *)
(***************************************************************************)
EXTENDS Integers, Sequences, FiniteSets, TLC

\* ------------------------------------------------------------------ bounds
\* Longest `homeworks` list a payload carries.
MaxHomeworks == 2
\* The server clock (`current_date`) and the local clock range over 0..MaxDate.
MaxDate == 2
\* `fetches` counts requests up to this value and then stays there.
MaxFetches == 2

\* ------------------------------------------------------------ Python values
\* None (JSON null).
None == [type |-> "null"]
\* A key that a dict does not hold (not a Python value: `d[k]` raises KeyError).
Absent == [type |-> "absent"]
JInt(n) == [type |-> "int", i |-> n]
JStr(s) == [type |-> "str", s |-> s]
JList(l) == [type |-> "list", items |-> l]
\* A dict is a record over the keys the program reads, Absent where it has none.
JDict(d) == [type |-> "dict", fields |-> d]

\* An exception object: its class and its single constructor argument.
Exc(cls, arg) == [type |-> cls, arg |-> arg]

\* str(v), as used by f-string interpolation and by the comparison in main.
\* str(KeyError(m)) is repr(m): the message in single quotes.
PyStr(v) ==
    CASE v.type = "str" -> v.s
      [] v.type = "int" -> ToString(v.i)
      [] v.type = "null" -> "None"
      [] v.type = "KeyError" -> "'" \o v.arg \o "'"
      [] OTHER -> v.arg

\* dict.get(key): the value, or None when the key is absent.
Get(d, key) == IF d.fields[key] = Absent THEN None ELSE d.fields[key]

Raise(e) == [raised |-> TRUE, error |-> e]
Return(v) == [raised |-> FALSE, value |-> v]

\* ------------------------------------------------------- program constants
RETRY_PERIOD == 600

HTTP_OK == 200

HOMEWORK_VERDICTS ==
    [approved |-> "Rabota proverena: revyueru vsyo ponravilos. Ura!",
     reviewing |-> "Rabota vzyata na proverku revyuerom.",
     rejected |-> "Rabota proverena: u revyuera est zamechaniya."]

\* Variant: the chat id is left out of the list of required tokens.
TOKENS_WithoutChatId == <<"PRACTICUM_TOKEN", "TELEGRAM_TOKEN">>

TOKENS == <<"PRACTICUM_TOKEN", "TELEGRAM_TOKEN", "TELEGRAM_CHAT_ID">>

\* ---------------------------------------------------------- check_tokens
\* The first token (in list order) whose global is None raises KeyError.
RECURSIVE check_tokens_from(_, _)
check_tokens_from(env, k) ==
    IF k > Len(TOKENS) THEN Return(None)
    ELSE IF env[TOKENS[k]] = None
         THEN Raise(Exc("KeyError",
                        "Otsutstvuet peremennaya okruzheniya " \o TOKENS[k]))
         ELSE check_tokens_from(env, k + 1)

check_tokens(env) == check_tokens_from(env, 1)

\* ---------------------------------------------------------- send_message
\* Variant: the TelegramError is not caught and reaches the caller.
send_message_Propagates(outcome, message) ==
    IF outcome = "ok"
    THEN [raised |-> FALSE, delivered |-> TRUE, log |-> <<>>]
    ELSE [raised |-> TRUE, delivered |-> FALSE, log |-> <<>>,
          error |-> Exc("TelegramError", "Timed out")]

\* Variant: the TelegramError is logged and then raised again as the
\* program's own exception.
send_message_WrapsError(outcome, message) ==
    IF outcome = "ok"
    THEN [raised |-> FALSE, delivered |-> TRUE, log |-> <<>>]
    ELSE [raised |-> TRUE, delivered |-> FALSE,
          log |-> <<[level |-> "ERROR", func |-> "send_message",
                     text |-> "Soobshchenie v Telegram ne otpravleno"]>>,
          error |-> Exc("PracticumException",
                        "Soobshchenie v Telegram ne otpravleno")]

\* outcome is what bot.send_message did: "ok" or "TelegramError".
\* TelegramError is caught and logged at error level; nothing is re-raised.
send_message(outcome, message) ==
    IF outcome = "ok"
    THEN [raised |-> FALSE, delivered |-> TRUE, log |-> <<>>]
    ELSE [raised |-> FALSE, delivered |-> FALSE,
          log |-> <<[level |-> "ERROR", func |-> "send_message",
                     text |-> "Soobshchenie v Telegram ne otpravleno"]>>]

\* -------------------------------------------------------- get_api_answer
\* Variant: the status code is left out of the message of a bad status.
get_api_answer_NoCode(timestamp, http) ==
    IF http.kind = "Exception"
    THEN Raise(Exc(http.cls, http.text))
    ELSE IF http.kind = "RequestException"
    THEN Raise(Exc("PracticumException",
                   "Oshibka pri zaprose k API: " \o http.text))
    ELSE IF http.status_code # HTTP_OK
    THEN Raise(Exc("PracticumException", "Oshibka otveta API"))
    ELSE IF ~http.json_ok
    THEN Raise(Exc("PracticumException", "Oshibka perevoda json"))
    ELSE Return(http.json)

\* http is what requests.get did: a RequestException, another exception
\* (which `except RequestException` lets through as it is), or a response
\* with a status code and a body that response.json() decodes or rejects.
get_api_answer(timestamp, http) ==
    IF http.kind = "Exception"
    THEN Raise(Exc(http.cls, http.text))
    ELSE IF http.kind = "RequestException"
    THEN Raise(Exc("PracticumException",
                   "Oshibka pri zaprose k API: " \o http.text))
    ELSE IF http.status_code # HTTP_OK
    THEN Raise(Exc("PracticumException",
                   "Oshibka " \o ToString(http.status_code)))
    ELSE IF ~http.json_ok
    THEN Raise(Exc("PracticumException", "Oshibka perevoda json"))
    ELSE Return(http.json)

\* -------------------------------------------------------- check_response
\* Variant: the key is tested with `'homeworks' not in response`, so an
\* explicit null gets past the KeyError branch.
check_response_KeyTest(response) ==
    IF response.type # "dict"
    THEN Raise(Exc("TypeError", "Nevernyy tip dannykh elementa response"))
    ELSE IF response.fields["homeworks"] = Absent
    THEN Raise(Exc("KeyError", "Otsutstvuet klyuch homeworks"))
    ELSE IF response.fields["homeworks"].type # "list"
    THEN Raise(Exc("TypeError", "Nevernyy tip dannykh elementa homeworks"))
    ELSE Return(Get(response, "homeworks"))

check_response(response) ==
    IF response.type # "dict"
    THEN Raise(Exc("TypeError", "Nevernyy tip dannykh elementa response"))
    ELSE IF Get(response, "homeworks") = None
    THEN Raise(Exc("KeyError", "Otsutstvuet klyuch homeworks"))
    ELSE IF response.fields["homeworks"].type # "list"
    THEN Raise(Exc("TypeError", "Nevernyy tip dannykh elementa homeworks"))
    ELSE Return(Get(response, "homeworks"))

\* ---------------------------------------------------------- parse_status
\* Variant: the status is read with homework.get('status'), so a record
\* without a status is reported as having the unknown status None.
parse_status_GetStatus(homework) ==
    IF homework.type # "dict"
    THEN Raise(Exc("TypeError", "'int' object is not subscriptable"))
    ELSE IF homework.fields["homework_name"] = Absent
    THEN Raise(Exc("PracticumException", "Otsutstvuet klyuch v otvete API"))
    ELSE LET name == homework.fields["homework_name"]
             status == Get(homework, "status")
         IN IF status.type = "str" /\ status.s \in DOMAIN HOMEWORK_VERDICTS
            THEN Return("Izmenilsya status proverki raboty \""
                        \o PyStr(name) \o "\". "
                        \o HOMEWORK_VERDICTS[status.s])
            ELSE Raise(Exc("PracticumException",
                           "Neizvestnyy status raboty: " \o PyStr(status)))

\* Variant: an unknown status is passed on as its own verdict
\* (HOMEWORK_VERDICTS.get(status, status)) and nothing is raised for it.
parse_status_DefaultVerdict(homework) ==
    IF homework.type # "dict"
    THEN Raise(Exc("TypeError", "'int' object is not subscriptable"))
    ELSE IF homework.fields["homework_name"] = Absent
            \/ homework.fields["status"] = Absent
    THEN Raise(Exc("PracticumException", "Otsutstvuet klyuch v otvete API"))
    ELSE LET name == homework.fields["homework_name"]
             status == homework.fields["status"]
         IN Return("Izmenilsya status proverki raboty \""
                   \o PyStr(name) \o "\". "
                   \o (IF status.type = "str"
                          /\ status.s \in DOMAIN HOMEWORK_VERDICTS
                       THEN HOMEWORK_VERDICTS[status.s]
                       ELSE PyStr(status)))

\* Subscripting a non-dict element with a string key raises TypeError, which
\* the `except KeyError` clause does not catch.
parse_status(homework) ==
    IF homework.type # "dict"
    THEN Raise(Exc("TypeError", "'int' object is not subscriptable"))
    ELSE IF homework.fields["homework_name"] = Absent
            \/ homework.fields["status"] = Absent
    THEN Raise(Exc("PracticumException", "Otsutstvuet klyuch v otvete API"))
    ELSE LET name == homework.fields["homework_name"]
             status == homework.fields["status"]
         IN IF status.type = "str" /\ status.s \in DOMAIN HOMEWORK_VERDICTS
            THEN Return("Izmenilsya status proverki raboty \""
                        \o PyStr(name) \o "\". "
                        \o HOMEWORK_VERDICTS[status.s])
            ELSE Raise(Exc("PracticumException",
                           "Neizvestnyy status raboty: " \o PyStr(status)))

\* ------------------------------------------------ what the outside can do
\* A homework record as the API documents it: a dict whose values are
\* strings or integers (the parameter type of parse_status); either key may
\* be missing.
HomeworkRecord(name, status) ==
    JDict([homework_name |-> name, status |-> status])

Names == {Absent, JStr("hw1")}

Statuses ==
    {Absent, JStr("approved"), JStr("reviewing"), JStr("rejected"),
     JStr("archived"), JInt(0)}

Records == {HomeworkRecord(n, s) : n \in Names, s \in Statuses}

\* Element 0 of `homeworks`: any record, or something that is not a dict.
HeadElements == Records \cup {JInt(0)}

\* The elements after element 0: older homeworks, which main never reads.
\* One record that parse_status would refuse stands for them.
TailElements ==
    {HomeworkRecord(JStr("hw2"), JStr("archived"))}

Tails == UNION {[1..k -> TailElements] : k \in 0..(MaxHomeworks - 1)}

HomeworkLists == {<<>>} \cup {<<h>> \o t : h \in HeadElements, t \in Tails}

\* The value under `homeworks`: no key, null, a non-list, or a list.
HomeworksValues ==
    {Absent, None, JInt(0)} \cup {JList(l) : l \in HomeworkLists}

\* The value under `current_date`: no key, or the server's clock.
Dates == {Absent} \cup {JInt(d) : d \in 1..MaxDate}

\* What response.json() can decode to.
Payloads ==
    {None, JList(<<>>), JStr("error")}
    \cup {JDict([homeworks |-> h, current_date |-> d]) :
            h \in HomeworksValues, d \in Dates}

StatusCodes == {200, 204, 500}

\* Exceptions of requests.get that are not RequestException.  The except
\* clause of main catches every Exception; str(MemoryError()) is ''.
OtherExceptions == {[kind |-> "Exception", cls |-> "MemoryError", text |-> ""]}

\* What requests.get can do.
HttpOutcomes ==
    {[kind |-> "RequestException", text |-> "ConnectionError"]}
    \cup OtherExceptions
    \cup {[kind |-> "response", status_code |-> c, json_ok |-> FALSE,
           json |-> None] : c \in StatusCodes}
    \cup {[kind |-> "response", status_code |-> c, json_ok |-> TRUE,
           json |-> p] : c \in StatusCodes, p \in Payloads}

\* What bot.send_message can do.
BotOutcomes == {"ok", "TelegramError"}

\* os.getenv of each token: None when the variable is not set.
Environments ==
    [PRACTICUM_TOKEN : {None, JStr("y0_practicum")},
     TELEGRAM_TOKEN : {None, JStr("1:telegram")},
     TELEGRAM_CHAT_ID : {None, JStr("42")}]

\* int(time.time()) at startup.
Clock == {JInt(t) : t \in 0..MaxDate}

\* ------------------------------------------------------------------ state
VARIABLES
    env,            \* the module globals PRACTICUM_TOKEN, TELEGRAM_TOKEN, TELEGRAM_CHAT_ID
    pc,             \* where main is
    timestamp,      \* main's cursor
    error_message,  \* main's last notified error ('' or an exception object)
    response,       \* main's local: the decoded payload of this cycle
    homework,       \* main's local: the validated list of this cycle
    error,          \* the exception the except clause caught in this cycle
    from_date,      \* the from_date parameter of the latest request
    fetches,        \* requests made so far (counted up to MaxFetches)
    token_checks,   \* calls of check_tokens so far
    sleptTime,      \* time slept since the latest request
    cycle,          \* what this cycle did: outcome, messages tried, log entries
    prev            \* summary of the cycle before this one

vars ==
    <<env, pc, timestamp, error_message, response, homework, error,
      from_date, fetches, token_checks, sleptTime, cycle, prev>>

\* No cycle is running (before the loop, and between sleep and the next fetch).
Idle ==
    [outcome |-> "idle", startCursor |-> Absent, startError |-> Absent,
     sent |-> <<>>, log |-> <<>>]

\* Nothing is kept of the cycle before.
NoBefore == [outcome |-> "none", errText |-> ""]

NoCycle ==
    [outcome |-> "none", startCursor |-> Absent, endCursor |-> Absent,
     date |-> Absent, errText |-> "", nStatus |-> 0, nFailure |-> 0,
     nErrorLog |-> 0, nFailureDelivered |-> 0, before |-> NoBefore]

\* The number of send_message calls of one kind ("status" for line 202,
\* "failure" for line 212) among those made.
CountSent(sent, kind) ==
    Cardinality({k \in DOMAIN sent : sent[k].kind = kind})

\* The number of log entries of one level written by one function.
CountLogged(log, level, func) ==
    Cardinality({k \in DOMAIN log :
                   log[k].level = level /\ log[k].func = func})

\* What is kept of a finished cycle: its outcome, its cursors, the error
\* text, how many messages of each kind it tried, how many failure messages
\* got through, how many entries main logged (and the payload's date and how
\* the cycle before it ended, only of a successful one).
Summary ==
    [outcome |-> cycle.outcome,
     startCursor |-> cycle.startCursor,
     endCursor |-> timestamp,
     date |-> IF cycle.outcome = "ok"
              THEN response.fields["current_date"] ELSE Absent,
     errText |-> IF cycle.outcome = "failed" THEN PyStr(error) ELSE "",
     nStatus |-> CountSent(cycle.sent, "status"),
     nFailure |-> CountSent(cycle.sent, "failure"),
     nErrorLog |-> CountLogged(cycle.log, "ERROR", "main"),
     nFailureDelivered |->
         Cardinality({k \in DOMAIN cycle.sent :
                        cycle.sent[k].kind = "failure"
                        /\ cycle.sent[k].delivered}),
     before |-> IF cycle.outcome = "ok"
                THEN [outcome |-> prev.outcome, errText |-> prev.errText]
                ELSE NoBefore]

Init ==
    /\ env \in Environments
    /\ pc = "start"
    /\ timestamp = Absent
    /\ error_message = Absent
    /\ response = Absent
    /\ homework = Absent
    /\ error = Absent
    /\ from_date = Absent
    /\ fetches = 0
    /\ token_checks = 0
    /\ sleptTime = 0
    /\ cycle = Idle
    /\ prev = NoCycle

\* ------------------------------------------------------------------- main
\* Lines 188-192: check_tokens(); on KeyError main is left and the process
\* ends.  Otherwise the bot is built, the cursor is the local clock and the
\* last error is the empty string.
CheckTokens ==
    /\ pc = "start"
    /\ token_checks' = token_checks + 1
    /\ LET r == check_tokens(env)
       IN IF r.raised
          THEN /\ pc' = "aborted"
               /\ error' = r.error
               /\ cycle' = [cycle EXCEPT !.log =
                              Append(@, [level |-> "CRITICAL",
                                         func |-> "check_tokens",
                                         text |-> r.error.arg])]
               /\ UNCHANGED <<timestamp, error_message>>
          ELSE /\ pc' = "FETCH"
               /\ timestamp' \in Clock
               /\ error_message' = JStr("")
               /\ UNCHANGED <<error, cycle>>
    /\ UNCHANGED <<env, response, homework, from_date, fetches, sleptTime,
                   prev>>

\* Variant: the clause is `except PracticumException`.
Caught_OnlyPracticum(err) == err.type = "PracticumException"

\* Line 209: `except Exception` catches every exception the try block raises.
Caught(err) == TRUE

\* Where an exception raised in the try block takes main: to the except
\* clause, or out of main when nothing catches it.
OnRaise(err) == IF Caught(err) THEN "ERROR" ELSE "crashed"

\* Line 196: response = get_api_answer(timestamp).
Fetch ==
    /\ pc = "FETCH"
    /\ \E http \in HttpOutcomes :
         LET r == get_api_answer(timestamp, http)
         IN IF r.raised
            THEN /\ error' = r.error
                 /\ pc' = OnRaise(r.error)
                 /\ UNCHANGED response
            ELSE /\ response' = r.value
                 /\ pc' = "VALIDATE"
                 /\ UNCHANGED error
    /\ from_date' = timestamp
    /\ fetches' = IF fetches < MaxFetches THEN fetches + 1 ELSE fetches
    /\ sleptTime' = 0
    /\ cycle' = [Idle EXCEPT !.outcome = "running",
                             !.startCursor = timestamp,
                             !.startError = error_message]
    /\ UNCHANGED <<env, timestamp, error_message, homework, token_checks,
                   prev>>

\* Variant: the cursor is advanced as soon as the payload is decoded, before
\* it is validated.
Validate_AdvancesFirst ==
    /\ pc = "VALIDATE"
    /\ timestamp' = IF response.type = "dict"
                    THEN Get(response, "current_date") ELSE timestamp
    /\ LET r == check_response(response)
       IN IF r.raised
          THEN /\ error' = r.error
               /\ pc' = "ERROR"
               /\ UNCHANGED homework
          ELSE /\ homework' = r.value
               /\ pc' = "NOTIFY"
               /\ UNCHANGED error
    /\ UNCHANGED <<env, error_message, response, from_date,
                   fetches, token_checks, sleptTime, cycle, prev>>

\* Line 197: homework = check_response(response).
Validate ==
    /\ pc = "VALIDATE"
    /\ LET r == check_response(response)
       IN IF r.raised
          THEN /\ error' = r.error
               /\ pc' = OnRaise(r.error)
               /\ UNCHANGED homework
          ELSE /\ homework' = r.value
               /\ pc' = "NOTIFY"
               /\ UNCHANGED error
    /\ UNCHANGED <<env, timestamp, error_message, response, from_date,
                   fetches, token_checks, sleptTime, cycle, prev>>

\* Variant: homework[-1] is translated.
Newest_Last(hw) == hw.items[Len(hw.items)]

\* Line 202: homework[0], the element that is translated.
Newest(hw) == hw.items[1]

\* Lines 201-206: if homework: send_message(bot, parse_status(homework[0])).
\* An exception of parse_status (or one send_message lets through) is caught
\* by the except clause of the loop.
NotifyIfNew ==
    /\ pc = "NOTIFY"
    /\ IF Len(homework.items) > 0
       THEN LET p == parse_status(Newest(homework))
            IN IF p.raised
               THEN /\ error' = p.error
                    /\ pc' = OnRaise(p.error)
                    /\ UNCHANGED cycle
               ELSE \E outcome \in BotOutcomes :
                      LET s == send_message(outcome, p.value)
                      IN /\ cycle' = [cycle EXCEPT
                                !.sent = Append(@, [kind |-> "status",
                                                    text |-> p.value,
                                                    delivered |-> s.delivered]),
                                !.log = @ \o s.log]
                         /\ IF s.raised
                            THEN error' = s.error /\ pc' = OnRaise(s.error)
                            ELSE pc' = "ADVANCE" /\ UNCHANGED error
       ELSE /\ pc' = "ADVANCE"
            /\ UNCHANGED <<error, cycle>>
    /\ UNCHANGED <<env, timestamp, error_message, response, homework,
                   from_date, fetches, token_checks, sleptTime, prev>>

\* Variant: the cursor is taken from the local clock, not from the payload.
NextTimestamp_LocalClock(resp) == JInt(0)

\* Line 207: the new cursor.
NextTimestamp(resp) == Get(resp, "current_date")

\* Variant: lines 207-208 are skipped when the status message of this cycle
\* did not get through, so that it is fetched and sent again.
AdvanceCursor_OnlyIfDelivered ==
    /\ pc = "ADVANCE"
    /\ IF \E k \in DOMAIN cycle.sent : ~cycle.sent[k].delivered
       THEN UNCHANGED <<timestamp, error_message>>
       ELSE /\ timestamp' = NextTimestamp(response)
            /\ error_message' = JStr("")
    /\ cycle' = [cycle EXCEPT !.outcome = "ok"]
    /\ pc' = "SLEEP"
    /\ UNCHANGED <<env, response, homework, error, from_date, fetches,
                   token_checks, sleptTime, prev>>

\* Lines 207-208: timestamp = response.get('current_date'); error_message = ''.
AdvanceCursor ==
    /\ pc = "ADVANCE"
    /\ timestamp' = NextTimestamp(response)
    /\ error_message' = JStr("")
    /\ cycle' = [cycle EXCEPT !.outcome = "ok"]
    /\ pc' = "SLEEP"
    /\ UNCHANGED <<env, response, homework, error, from_date, fetches,
                   token_checks, sleptTime, prev>>

\* Line 210: the failure message.
FailureMessage(err) == "Sboy v rabote programmy: " \o PyStr(err)

\* Variant: the exception objects themselves are compared (`error !=
\* error_message`): two exception objects are never equal.
IsNewError_ByIdentity(err, last) == TRUE

\* Line 211: is this error another one than the last one notified?
IsNewError(err, last) == PyStr(err) # PyStr(last)

\* Variant: the error is remembered only when its message got through.
NotifiedError_IfDelivered(err, last, delivered) ==
    IF delivered THEN err ELSE last

\* Line 213: error_message = error, after send_message has returned.
NotifiedError(err, last, delivered) == err

\* Variant: logger.error(message) stands inside the if statement, so a
\* suppressed duplicate is not logged either.
ErrorLog_OnlyWhenNotified(message, notified) ==
    IF notified
    THEN <<[level |-> "ERROR", func |-> "main", text |-> message]>>
    ELSE <<>>

\* Line 214: logger.error(message), after the if statement.
ErrorLog(message, notified) ==
    <<[level |-> "ERROR", func |-> "main", text |-> message]>>

\* Lines 209-214: the except clause.  An exception that leaves send_message
\* here is raised inside the handler: nothing catches it and main is left.
ErrorPath ==
    /\ pc = "ERROR"
    /\ LET message == FailureMessage(error)
       IN IF IsNewError(error, error_message)
          THEN \E outcome \in BotOutcomes :
                 LET s == send_message(outcome, message)
                     tried == [kind |-> "failure", text |-> message,
                               delivered |-> s.delivered]
                 IN IF s.raised
                    THEN /\ pc' = "crashed"
                         /\ cycle' = [cycle EXCEPT !.outcome = "failed",
                                                   !.sent = Append(@, tried),
                                                   !.log = @ \o s.log]
                         /\ UNCHANGED error_message
                    ELSE /\ pc' = "SLEEP"
                         /\ error_message' =
                              NotifiedError(error, error_message, s.delivered)
                         /\ cycle' = [cycle EXCEPT
                                        !.outcome = "failed",
                                        !.sent = Append(@, tried),
                                        !.log = (@ \o s.log)
                                                \o ErrorLog(message, TRUE)]
          ELSE /\ pc' = "SLEEP"
               /\ cycle' = [cycle EXCEPT
                              !.outcome = "failed",
                              !.log = @ \o ErrorLog(message, FALSE)]
               /\ UNCHANGED error_message
    /\ UNCHANGED <<env, timestamp, response, homework, error, from_date,
                   fetches, token_checks, sleptTime, prev>>

\* Variant: time.sleep(RETRY_PERIOD) stands inside the except clause, so a
\* successful cycle goes straight on to the next request.
Sleep_OnlyOnFailure ==
    /\ pc = "SLEEP"
    /\ sleptTime' = IF cycle.outcome = "failed"
                    THEN sleptTime + RETRY_PERIOD ELSE sleptTime
    /\ prev' = Summary
    /\ cycle' = Idle
    /\ response' = Absent
    /\ homework' = Absent
    /\ error' = Absent
    /\ pc' = "FETCH"
    /\ UNCHANGED <<env, timestamp, error_message, from_date, fetches,
                   token_checks>>

\* Line 215: time.sleep(RETRY_PERIOD), then the next iteration.  The locals
\* response, homework and error are rebound before they are read again, so
\* their old values are dropped here.
Sleep ==
    /\ pc = "SLEEP"
    /\ sleptTime' = sleptTime + RETRY_PERIOD
    /\ prev' = Summary
    /\ cycle' = Idle
    /\ response' = Absent
    /\ homework' = Absent
    /\ error' = Absent
    /\ pc' = "FETCH"
    /\ UNCHANGED <<env, timestamp, error_message, from_date, fetches,
                   token_checks>>

Next ==
    \/ CheckTokens
    \/ Fetch
    \/ Validate
    \/ NotifyIfNew
    \/ AdvanceCursor
    \/ ErrorPath
    \/ Sleep

Spec == Init /\ [][Next]_vars

\* main is a sequential program: its next statement is always executed, and
\* time.sleep returns.
LiveSpec == Spec /\ WF_vars(Next)

TypeOK ==
    /\ pc \in {"start", "aborted", "FETCH", "VALIDATE", "NOTIFY", "ADVANCE",
               "ERROR", "SLEEP", "crashed"}
    /\ fetches \in 0..MaxFetches
    /\ token_checks \in 0..1

\* ================================================================ claims
NStatus == CountSent(cycle.sent, "status")
NFailure == CountSent(cycle.sent, "failure")

\* A cycle has got past its request (from_date is this cycle's).
InCycle == cycle.outcome \in {"running", "ok", "failed"}

\* The cycle is over and main is about to sleep.
CycleDone == pc = "SLEEP"

\* C1: a cycle that completes without error on a payload with no
\* `current_date` leaves the cursor as it was before the cycle, and the next
\* request carries the same from_date as this one.
C1_CursorRetainedWithoutDate ==
    /\ (CycleDone /\ cycle.outcome = "ok"
          /\ response.fields["current_date"] = Absent)
       => timestamp = cycle.startCursor
    /\ (prev.outcome = "ok" /\ prev.date = Absent /\ InCycle)
       => from_date = prev.startCursor

\* C2: a cycle that completes without error on a payload with a
\* `current_date` leaves the cursor equal to that value, and the next request
\* carries it as from_date.
C2_CursorAdvancesToServerDate ==
    /\ (CycleDone /\ cycle.outcome = "ok"
          /\ response.fields["current_date"] # Absent)
       => timestamp = response.fields["current_date"]
    /\ (prev.outcome = "ok" /\ prev.date # Absent)
       => /\ prev.endCursor = prev.date
          /\ InCycle => from_date = prev.date

\* C2 witness: a successful cycle with one notification moved the cursor to
\* the server's date 2, away from where it was, and the next request carries 2.
C2_Witness ==
    /\ prev.outcome = "ok"
    /\ prev.nStatus = 1
    /\ prev.date = JInt(2)
    /\ prev.startCursor = JInt(0)
    /\ cycle.outcome = "running"
    /\ from_date = JInt(2)

\* C3: a cycle that fails (at the request, at validation or at translation)
\* leaves the cursor as it was, and the next request carries the same
\* from_date.
C3_CursorKeptOnFailure ==
    /\ (pc = "ERROR" \/ cycle.outcome = "failed")
       => timestamp = cycle.startCursor
    /\ prev.outcome = "failed"
       => /\ prev.endCursor = prev.startCursor
          /\ InCycle => from_date = prev.startCursor

\* C3 witness: the cycle before failed in the translator, after a payload
\* had been decoded, and this cycle's request went out with the old cursor.
C3_Witness ==
    /\ prev.outcome = "failed"
    /\ prev.errText = "Neizvestnyy status raboty: archived"
    /\ prev.startCursor = JInt(1)
    /\ cycle.outcome = "running"
    /\ from_date = JInt(1)

C5_NotifierNeverRaises ==
    /\ pc # "crashed"
    /\ NStatus > 0 => (pc \in {"ADVANCE", "SLEEP"} /\ error = Absent)
    /\ NFailure > 0 => (pc = "SLEEP" /\ cycle.outcome = "failed")
    /\ \A k \in DOMAIN cycle.sent :
         ~cycle.sent[k].delivered =>
            \E l \in DOMAIN cycle.log :
               cycle.log[l].level = "ERROR" /\ cycle.log[l].func = "send_message"

\* C5 witness: the failure message could not be delivered and main goes on to
\* sleep.
C5_Witness ==
    /\ pc = "SLEEP"
    /\ NFailure = 1
    /\ ~cycle.sent[1].delivered

\* The loop has been entered.
Started == pc \notin {"start", "aborted"}

C7_OneStatusPerNonEmptyList ==
    (CycleDone /\ homework # Absent) =>
        IF Len(homework.items) > 0
        THEN NStatus = 1
        ELSE cycle.sent = <<>>

\* C7 amended: in a cycle with a non-empty validated list only element 0 is
\* translated; if that succeeds exactly one message is sent, the translation
\* of element 0, whatever the other elements are; if it fails no status
\* notification is sent and the cycle fails with the translator's error.  A
\* cycle with an empty validated list sends nothing.
C7_NewestOnly ==
    (CycleDone /\ homework # Absent) =>
        IF Len(homework.items) = 0
        THEN cycle.sent = <<>> /\ cycle.outcome = "ok"
        ELSE LET p == parse_status(homework.items[1])
             IN IF p.raised
                THEN /\ NStatus = 0
                     /\ cycle.outcome = "failed"
                     /\ error = p.error
                ELSE /\ Len(cycle.sent) = 1
                     /\ cycle.sent[1].kind = "status"
                     /\ cycle.sent[1].text = p.value
                     /\ cycle.outcome = "ok"

\* C7 witness: two elements, the newest approved and the other one with an
\* unknown status: one notification, about the newest.
C7_Witness ==
    /\ CycleDone
    /\ homework # Absent
    /\ Len(homework.items) = 2
    /\ homework.items[1] = HomeworkRecord(JStr("hw1"), JStr("approved"))
    /\ homework.items[2] = HomeworkRecord(JStr("hw2"), JStr("archived"))
    /\ NStatus = 1
    /\ cycle.outcome = "ok"

\* The validator of the specification: the error kind, or the list.
Validator_Reference(payload) ==
    IF payload.type # "dict"
    THEN [fails |-> TRUE, kind |-> "ShapeError"]
    ELSE IF payload.fields["homeworks"] \in {Absent, None}
    THEN [fails |-> TRUE, kind |-> "MissingKeyError"]
    ELSE IF payload.fields["homeworks"].type # "list"
    THEN [fails |-> TRUE, kind |-> "ShapeError"]
    ELSE [fails |-> FALSE, value |-> payload.fields["homeworks"]]

\* The specification's name for an exception class of the validator.
ValidatorKind(err) ==
    CASE err.type = "TypeError" -> "ShapeError"
      [] err.type = "KeyError" -> "MissingKeyError"
      [] OTHER -> "other"

\* C8: on every payload check_response does what the reference says: it
\* raises the error kind the reference names and binds no list, or it
\* returns the `homeworks` list unchanged; and it changes nothing else.
C8_ValidatorAgrees ==
    [][pc = "VALIDATE" =>
        LET ref == Validator_Reference(response)
        IN /\ IF ref.fails
              THEN /\ pc' = "ERROR"
                   /\ ValidatorKind(error') = ref.kind
                   /\ homework' = Absent
              ELSE /\ pc' = "NOTIFY"
                   /\ homework' = ref.value
                   /\ error' = Absent
           /\ UNCHANGED <<env, timestamp, error_message, response,
                          from_date, fetches, token_checks, sleptTime,
                          cycle, prev>>]_vars

\* C8 witness: a payload whose `homeworks` is an explicit null was refused
\* with KeyError.
C8_Witness ==
    /\ pc = "ERROR"
    /\ response # Absent
    /\ response.type = "dict"
    /\ response.fields["homeworks"] = None
    /\ error.type = "KeyError"
    /\ homework = Absent

\* The verdict texts of the specification, by status code.
Verdict_Reference ==
    [approved |-> "Rabota proverena: revyueru vsyo ponravilos. Ura!",
     reviewing |-> "Rabota vzyata na proverku revyuerom.",
     rejected |-> "Rabota proverena: u revyuera est zamechaniya."]

\* The translator of the specification: the error kind, or the name and the
\* verdict the sentence carries.
Translator_Reference(record) ==
    IF record.fields["homework_name"] = Absent
       \/ record.fields["status"] = Absent
    THEN [fails |-> TRUE, kind |-> "MissingFieldError"]
    ELSE IF record.fields["status"] \notin
              {JStr("approved"), JStr("reviewing"), JStr("rejected")}
    THEN [fails |-> TRUE, kind |-> "UnknownStatusError"]
    ELSE [fails |-> FALSE,
          name |-> PyStr(record.fields["homework_name"]),
          verdict |-> Verdict_Reference[record.fields["status"].s]]

\* The specification's name for an exception of the translator.
TranslatorKind(err) ==
    IF err.type # "PracticumException" THEN "other"
    ELSE IF err.arg = "Otsutstvuet klyuch v otvete API"
    THEN "MissingFieldError"
    ELSE "UnknownStatusError"

\* C9: on every record (a dict with string or integer values, either key
\* possibly missing) parse_status does what the reference says: a missing
\* name or status is a missing-field error, otherwise a status outside the
\* three codes is an unknown-status error, otherwise the sentence carries the
\* name and the verdict of that code; the three verdicts are distinct.
C9_TranslatorAgrees ==
    [][(pc = "NOTIFY" /\ Len(homework.items) > 0
          /\ homework.items[1] \in Records) =>
        LET ref == Translator_Reference(homework.items[1])
        IN /\ IF ref.fails
              THEN /\ pc' = "ERROR"
                   /\ TranslatorKind(error') = ref.kind
                   /\ cycle'.sent = <<>>
              ELSE /\ pc' = "ADVANCE"
                   /\ Len(cycle'.sent) = 1
                   /\ cycle'.sent[1].text =
                        "Izmenilsya status proverki raboty \"" \o ref.name
                        \o "\". " \o ref.verdict
           /\ Cardinality({HOMEWORK_VERDICTS[c] :
                             c \in DOMAIN HOMEWORK_VERDICTS}) = 3]_vars

\* C9 witness: a record with a name and no status was refused as a missing
\* field.
C9_Witness ==
    /\ pc = "ERROR"
    /\ homework # Absent
    /\ homework.items[1] = HomeworkRecord(JStr("hw1"), Absent)
    /\ error = Exc("PracticumException", "Otsutstvuet klyuch v otvete API")

\* One of the three required globals is None.
TokenMissing ==
    \/ env["PRACTICUM_TOKEN"] = None
    \/ env["TELEGRAM_TOKEN"] = None
    \/ env["TELEGRAM_CHAT_ID"] = None

\* C10: with a required token missing, the one call of check_tokens ends the
\* process with KeyError before the loop: no request is made and no message
\* is sent; check_tokens is called once, never again from the loop.
C10_StartupGate ==
    /\ token_checks <= 1
    /\ pc # "start" => token_checks = 1
    /\ TokenMissing =>
          /\ pc \in {"start", "aborted"}
          /\ fetches = 0
          /\ from_date = Absent
          /\ cycle.sent = <<>>
          /\ prev = NoCycle
    /\ pc = "aborted" =>
          /\ TokenMissing
          /\ error.type = "KeyError"
          /\ Len(cycle.log) = 1
          /\ cycle.log[1].level = "CRITICAL"

\* C10 witness: only the chat id is missing and the process has ended.
C10_Witness ==
    /\ pc = "aborted"
    /\ env["PRACTICUM_TOKEN"] # None
    /\ env["TELEGRAM_TOKEN"] # None
    /\ env["TELEGRAM_CHAT_ID"] = None
    /\ fetches = 0

\* C11: after a cycle that succeeded the last error state is the empty
\* string (and still is when the next request is made), so that of the
\* cycles fail(E), success, fail(E) the second failing one sends a failure
\* notification again.
C11_SuccessClearsDedup ==
    /\ (CycleDone /\ cycle.outcome = "ok") => error_message = JStr("")
    /\ (prev.outcome = "ok" /\ pc = "FETCH") => error_message = JStr("")
    /\ (CycleDone /\ cycle.outcome = "failed"
          /\ prev.outcome = "ok"
          /\ prev.before.outcome = "failed"
          /\ prev.before.errText = PyStr(error))
       => NFailure = 1

\* Element 0 of the validated list is a record with a name and a status, and
\* the status is none of the three codes.
UnknownStatusHead ==
    /\ homework # Absent
    /\ Len(homework.items) > 0
    /\ homework.items[1] \in Records
    /\ homework.items[1].fields["homework_name"] # Absent
    /\ homework.items[1].fields["status"] \notin
         {Absent, JStr("approved"), JStr("reviewing"), JStr("rejected")}

C13_OneSleepPerCycle ==
    /\ RETRY_PERIOD = 600
    /\ pc = "FETCH" =>
          sleptTime = IF fetches = 0 THEN 0 ELSE RETRY_PERIOD
    /\ pc \in {"VALIDATE", "NOTIFY", "ADVANCE", "ERROR", "SLEEP"} =>
          sleptTime = 0
    /\ (pc = "FETCH" /\ fetches > 0) => prev.outcome \in {"ok", "failed"}

\* C13 witness: main has slept 600 seconds after a successful cycle and is
\* at the next request.
C13_Witness ==
    /\ pc = "FETCH"
    /\ fetches > 0
    /\ prev.outcome = "ok"
    /\ sleptTime = 600

\* C14: once the loop has started the cursor is an integer in every state,
\* whatever payloads were received, those without `current_date` included.
C14_CursorIsInteger ==
    Started => timestamp.type = "int"

\* What the specification says FETCH does with what the HTTP client did
\* (a transport failure or a response), given whether the response's status
\* counts as success: the marker of the UpstreamError, or the payload.
Fetch_Reference(http, success) ==
    IF http.kind = "RequestException"
    THEN [fails |-> TRUE, marker |-> "transport"]
    ELSE IF ~success
    THEN [fails |-> TRUE, marker |-> "status", status |-> http.status_code]
    ELSE IF ~http.json_ok
    THEN [fails |-> TRUE, marker |-> "decode"]
    ELSE [fails |-> FALSE, value |-> http.json]

\* get_api_answer does, at the cursor of this state, what the reference says:
\* it raises the one exception class of the upstream errors (with the status
\* code, or the decode marker, in its text), or it returns the payload.
FetchAgrees(http, ref) ==
    LET r == get_api_answer(timestamp, http)
    IN IF ref.fails
       THEN /\ r.raised
            /\ r.error.type = "PracticumException"
            /\ ref.marker = "status" =>
                  r.error.arg = "Oshibka " \o ToString(ref.status)
            /\ ref.marker = "decode" =>
                  r.error.arg = "Oshibka perevoda json"
       ELSE /\ ~r.raised
            /\ r.value = ref.value

\* The transport failures and the responses of the HTTP client.
TransportOutcomes == HttpOutcomes \ OtherExceptions

\* A response with status code c (and a body that does not decode).
BadStatus(c) ==
    [kind |-> "response", status_code |-> c, json_ok |-> FALSE, json |-> None]

\* C15 as stated: the request fails with the upstream error exactly on a
\* transport failure, on a status outside 200..299 (the error carrying the
\* status) and on an undecodable body, and returns the payload of every
\* response with a status in 200..299 and a decodable body.
C15_FetchFailsOnNon2xx ==
    pc = "FETCH" =>
        \A http \in TransportOutcomes :
            FetchAgrees(http,
                        Fetch_Reference(http,
                                        http.kind = "response"
                                        /\ http.status_code \in 200..299))

\* C15 amended: the request fails with the upstream error exactly on a
\* transport failure, on a status other than 200 (the error carrying the
\* status, 2xx statuses such as 204 included) and on an undecodable body of a
\* 200 response, and returns the payload of every 200 response with a
\* decodable body; two upstream errors with different status codes have
\* different texts; an exception of the HTTP client that is not a transport
\* failure is passed on as it is.
C15_FetchFailsOnNon200 ==
    /\ pc = "FETCH" =>
          /\ \A http \in TransportOutcomes :
                FetchAgrees(http,
                            Fetch_Reference(http,
                                            http.kind = "response"
                                            /\ http.status_code = 200))
          /\ \A http \in OtherExceptions :
                get_api_answer(timestamp, http)
                   = Raise(Exc(http.cls, http.text))
          /\ \A c1, c2 \in StatusCodes \ {200} :
                c1 # c2 =>
                   get_api_answer(timestamp, BadStatus(c1)).error.arg
                      # get_api_answer(timestamp, BadStatus(c2)).error.arg
    /\ pc = "VALIDATE" => (response \in Payloads /\ error = Absent)
    /\ (pc = "ERROR" /\ response = Absent) =>
          \/ error.type = "PracticumException"
          \/ error \in {Exc(http.cls, http.text) : http \in OtherExceptions}

\* C15 witness: a 204 response ended the request with the upstream error
\* that carries 204.
C15_Witness ==
    /\ pc = "ERROR"
    /\ response = Absent
    /\ error = Exc("PracticumException", "Oshibka 204")
    /\ cycle.sent = <<>>

\* The entries main's except clause has logged in this cycle.
NErrorLog == CountLogged(cycle.log, "ERROR", "main")

C17_AtMostOneAttemptPerCycle ==
    /\ Len(cycle.sent) <= 1
    /\ NStatus + NFailure = Len(cycle.sent)
    /\ NStatus = 1 => (pc \in {"ADVANCE", "SLEEP"} /\ cycle.outcome # "failed")
    /\ NFailure = 1 => (pc = "SLEEP" /\ cycle.outcome = "failed")
    /\ prev.nStatus + prev.nFailure <= 1
    /\ prev.nStatus = 1 => prev.outcome = "ok"
    /\ prev.nFailure = 1 => prev.outcome = "failed"

\* C17 witness: the one attempt of a finished cycle was a status message that
\* the messaging client refused with TelegramError; no failure message
\* followed it.
C17_Witness ==
    /\ CycleDone
    /\ Len(cycle.sent) = 1
    /\ cycle.sent[1].kind = "status"
    /\ ~cycle.sent[1].delivered
    /\ CountLogged(cycle.log, "ERROR", "send_message") = 1
    /\ NFailure = 0

\* The cycle before tried to send the failure message of its error and the
\* messaging client refused it.
PrevUndelivered ==
    /\ prev.outcome = "failed"
    /\ prev.nFailure = 1
    /\ prev.nFailureDelivered = 0

\* C18: a failing cycle that tried to send its failure message leaves the
\* last error state equal to its error, delivered or not; so after an
\* undelivered attempt for E the last error state reads E at the next
\* request, and a following cycle that fails with the same text makes no
\* attempt and leaves the state at E.
C18_ErrorStateRecordsAttempts ==
    /\ (CycleDone /\ NFailure = 1) => error_message = error
    /\ (PrevUndelivered /\ pc = "FETCH") =>
          PyStr(error_message) = prev.errText
    /\ (PrevUndelivered /\ CycleDone /\ cycle.outcome = "failed"
          /\ PyStr(error) = prev.errText)
       => /\ cycle.sent = <<>>
          /\ PyStr(error_message) = prev.errText

\* C18 witness: the connection error of the cycle before could not be
\* notified; the same error now, and nothing is sent for it.
C18_Witness ==
    /\ PrevUndelivered
    /\ prev.errText = "Oshibka pri zaprose k API: ConnectionError"
    /\ CycleDone
    /\ cycle.outcome = "failed"
    /\ PyStr(error) = prev.errText
    /\ cycle.sent = <<>>

\* C19: a cycle that sent a status message ends as a successful one whether
\* the message was delivered or not: the last error state is empty, and with
\* a `current_date` in the payload the cursor is that date, so the next
\* request asks from that date on.
C19_SuccessDespiteUndelivered ==
    /\ (CycleDone /\ NStatus = 1) =>
          /\ cycle.outcome = "ok"
          /\ error_message = JStr("")
          /\ response.fields["current_date"] # Absent =>
                timestamp = response.fields["current_date"]
          /\ NFailure = 0
          /\ NErrorLog = 0
    /\ (prev.nStatus = 1 /\ prev.date # Absent) =>
          /\ prev.outcome = "ok"
          /\ prev.endCursor = prev.date
          /\ pc = "FETCH" => (timestamp = prev.date
                              /\ error_message = JStr(""))
          /\ InCycle => from_date = prev.date

\* C19 witness: the status message was refused by the messaging client; the
\* cursor has moved from 0 to the server's date 2 all the same, and the last
\* error state, not empty when the cycle began, is empty.
C19_Witness ==
    /\ CycleDone
    /\ NStatus = 1
    /\ ~cycle.sent[1].delivered
    /\ cycle.startCursor = JInt(0)
    /\ cycle.startError # JStr("")
    /\ response.fields["current_date"] = JInt(2)
    /\ timestamp = JInt(2)
    /\ error_message = JStr("")

\* C20: a cycle that fails while the last error state is empty (the first
\* failure after startup or after a success) tries to send one failure
\* notification, the failure message of its error, whatever the error's
\* text is, the empty text included.
C20_FirstFailureAlwaysNotified ==
    (CycleDone /\ cycle.outcome = "failed" /\ cycle.startError = JStr(""))
    => /\ NFailure = 1
       /\ cycle.sent[1].text = FailureMessage(error)

====
